---- MODULE Spec2Model ----
(***************************************************************************)
(* Session / Step / Event lifecycle of the lucidicai facade               *)
(* (src/lucidicai/__init__.py) and the run correlation of the LangChain   *)
(* callback handler (src/lucidicai/providers/langchain.py).               *)
(*                                                                         *)
(* The classes Client, Session, Step and Event live in modules of the     *)
(* package that are imported by the facade (client.py, session.py,        *)
(* step.py, event.py); their methods are the operators named Client_*,    *)
(* Session_*, Step_* and Event_* below.                                    *)
(***************************************************************************)
EXTENDS Integers, Sequences, FiniteSets, TLC

\* Bounds of the model: how many Sessions, Steps and Events are ever created.
MaxSessions == 2
MaxSteps == 2
MaxEvents == 2

\* Python's None, for an optional field or argument that is not given.
None == "None"
\* The values an optional text argument takes.
Vals == {None, "a"}
\* Provider run identifiers (str(run_id)).
Runs == {"r1", "r2"}
\* Model names a start callback extracts from its payload.
Models == {"m1", "m2"}
\* The index arguments of update_previous_step and update_previous_event.
IndexArgs == (0 - (MaxSteps + 1))..0

VARIABLES
    initialized,    \* the Client singleton has been constructed
    session,        \* Client().session: 0 is None, else an index of sessions
    sessions,       \* every Session object ever created, in creation order
    steps,          \* every Step object ever created, in creation order
    events,         \* every Event object ever created, in creation order
    run_to_model,   \* LucidicLangchainHandler.run_to_model (None: no entry)
    run_to_event,   \* LucidicLangchainHandler.run_to_event (index of events; 0: no entry)
    last,           \* the call that has just returned (operation, arguments, how it
                    \* returned), or Idle while the host program is between calls
    now,            \* the clock read by the prompt cache (time.time(), in ticks)
    prompts,        \* Client's prompt cache: an entry for each (name, label)
    backend,        \* the template the backend serves for each (name, label)
    got,            \* what the latest get_prompt did: text returned, backend
                    \* call made, warning printed
    sigint,         \* the handler installed for SIGINT
    original_handler,   \* cleanup's local original_handler
    pc,             \* where the process is: running, inside cleanup, exited
    interrupts,     \* where the process was at each SIGINT it has received
    threads,        \* the callback threads of the host framework: position and locals
    callbacks       \* the callbacks attribute of the host objects handed to attach_to_llms

vars == <<initialized, session, sessions, steps, events, run_to_model, run_to_event, last,
          now, prompts, backend, got, sigint, original_handler, pc, interrupts,
          threads, callbacks>>
facade == <<initialized, session, sessions, steps, events>>
tables == <<run_to_model, run_to_event>>
\* The prompt cache, the process exit, the framework's threads and the host
\* objects: what the Session, Step and Event calls and the callbacks above do
\* not touch.
cache == <<now, prompts, backend, got>>
exit == <<sigint, original_handler, pc, interrupts>>
aside == <<cache, exit, threads, callbacks>>

\* How a call returns.
OK == "ok"
WARN == "warning"
InvalidOperationError == "InvalidOperationError"
LucidicNotInitializedError == "LucidicNotInitializedError"
APIKeyVerificationError == "APIKeyVerificationError"
\* A callback that only printed a message and returned.
LOGGED == "logged"
\* Python's KeyError, raised by a dict lookup.
KeyError == "KeyError"

\* arg is the argument that decides how the call returns (init's credentials)
\* or the value an indexed update was given, idx an index argument, run a
\* callback's run id; for get_prompt arg is the prompt asked for and idx the
\* cache_ttl.
Ret(op, out, arg, idx, run) ==
    last' = [op |-> op, out |-> out, arg |-> arg, idx |-> idx, run |-> run]

\* The host program is between two calls.
Idle == [op |-> "idle", out |-> OK, arg |-> None, idx |-> 0, run |-> None]

\* (name, label) pairs a prompt is asked for.
PromptKeys == {"p", "q"}
\* No cache entry for a key.
NoEntry == [cached |-> FALSE, text |-> <<>>, created |-> 0, ttl |-> 0]
\* get_prompt has not been called since the host program went on.
NoResult == [text |-> <<>>, fetched |-> FALSE, warned |-> FALSE, variables |-> <<>>]
\* The threads on which the host framework delivers callbacks.
Threads == {"t1", "t2"}
\* A thread that is delivering no callback. A thread at work holds where it
\* is in the callback, the callback and its run id, the callback's locals
\* model and event, whether it has written the Event, and how it returned.
NoThread == [at |-> "idle", op |-> None, run |-> None, model |-> None, event |-> 0,
             wrote |-> FALSE, out |-> None]
\* The host object handed to attach_to_llms and its attributes.
Objects == {"target", "llm", "_private"}
\* The callback handlers of the host: two instances of LucidicLangchainHandler
\* and a handler of another class.
Handlers == {"h", "h2", "other"}
LucidicLangchainHandler == {"h", "h2"}
\* Bound of the callbacks a host object holds before the handler is attached.
MaxCallbacks == 2
\* An object without a callbacks attribute.
NoCallbacks == [kind |-> "absent", items |-> <<>>]
\* The callbacks attribute of a host object: absent, None, or a list of
\* handlers.
CallbackValues ==
    {NoCallbacks, [kind |-> "None", items |-> <<>>]}
    \cup {[kind |-> "list", items |-> l] :
            l \in {x \in UNION {[1..n -> Handlers] : n \in 0..MaxCallbacks} :
                     \A i, j \in 1..Len(x) : i # j => x[i] # x[j]}}

\* Bounds of the prompt cache: how far the clock runs, the longest cache_ttl.
MaxTime == 3
MaxTtl == 2
\* The cache_ttl arguments: -1 (cache forever), 0 (no caching), 1..MaxTtl.
TtlArgs == (0 - 1)..MaxTtl
\* The templates the backend serves while the cache is looked at.
PromptTexts == {<<"a">>, <<"b">>}
\* PromptError, raised by get_prompt.
PromptError == "PromptError"

\* The handlers of SIGINT: Python's own, which raises KeyboardInterrupt, one
\* the host program has installed, and signal.SIG_IGN.
default_int_handler == "default_int_handler"
host_handler == "host_handler"
SIG_IGN == "SIG_IGN"
KeyboardInterrupt == "KeyboardInterrupt"
\* Any exception of a backend call.
Exception == "Exception"
\* Bound of the interrupts a process receives.
MaxInterrupts == 2
\* Where cleanup is between masking SIGINT and its finally clause.
CleanupBody == {"cleanup_client", "end_session", "clear_session"}

\* Bound of the templates: how many pieces a template is made of.
MaxPieces == 3
\* The pieces of a text: the two brace pairs, the tokens of the two keys,
\* and other characters.
Pieces == {<<"{", "{">>, <<"}", "}">>, <<"{", "{", "a", "}", "}">>,
           <<"{", "{", "b", "}", "}">>, <<"a">>, <<"x">>}

\* The pieces of ps, one after the other.
RECURSIVE Concat(_)
Concat(ps) == IF ps = <<>> THEN <<>> ELSE ps[1] \o Concat(Tail(ps))

\* The templates the substitution is tried on.
Texts == {Concat(ps) : ps \in UNION {[1..n -> Pieces] : n \in 0..MaxPieces}}

\* The keys and the values of the variables argument.
Keys == {<<"a">>, <<"b">>}
Values == {<<"x">>, <<"{", "{", "b", "}", "}">>, <<"}", "}">>}
\* The variables argument: no variables, one key, or both in either order.
VariableDicts ==
    {<<>>}
    \cup {<<(<<k, v>>)>> : k \in Keys, v \in Values}
    \cup {d \in {<<(<<k1, v1>>), (<<k2, v2>>)>> :
                    k1 \in Keys, k2 \in Keys, v1 \in Values, v2 \in Values} :
            d[1][1] # d[2][1]}

\* Texts are sequences of characters. str.find: the 0-based position of the
\* first occurrence of sub in text, -1 when there is none.
Find(text, sub) ==
    LET hits == {i \in 1..(Len(text) - Len(sub) + 1) : SubSeq(text, i, i + Len(sub) - 1) = sub}
    IN  IF hits = {} THEN 0 - 1
        ELSE (CHOOSE i \in hits : \A j \in hits : i <= j) - 1

\* str.replace: every occurrence of old (non-empty), left to right and without
\* overlap, replaced by new.
RECURSIVE Replace(_, _, _)
Replace(text, old, new) ==
    IF Len(text) < Len(old) THEN text
    ELSE IF SubSeq(text, 1, Len(old)) = old
    THEN new \o Replace(SubSeq(text, Len(old) + 1, Len(text)), old, new)
    ELSE <<text[1]>> \o Replace(Tail(text), old, new)

\* "{{" + key + "}}"
Token(key) == <<"{", "{">> \o key \o <<"}", "}">>

\* The loop of get_prompt over variables.items(), a sequence of <<key, val>>
\* in the dict's order: the text after the replacements, or the PromptError
\* raised at the first key whose token is not found.
RECURSIVE Substitute(_, _)
Substitute(prompt, variables) ==
    IF variables = <<>> THEN [raised |-> FALSE, text |-> prompt]
    ELSE LET key == variables[1][1]
             val == variables[1][2]
         IN  IF Find(prompt, Token(key)) = 0 - 1
             THEN [raised |-> TRUE, text |-> <<>>]
             ELSE Substitute(Replace(prompt, Token(key), val), Tail(variables))

\* The test before the warning "Unreplaced variable(s) left in prompt".
UnreplacedWarning(prompt) ==
    /\ Find(prompt, <<"{", "{">>) # 0 - 1
    /\ Find(prompt, <<"}", "}">>) # 0 - 1
    /\ Find(prompt, <<"{", "{">>) < Find(prompt, <<"}", "}">>)

\* A cache entry is valid when its TTL is negative or it is younger than its
\* TTL.
Client_prompt_valid(entry) ==
    entry.cached /\ (entry.ttl < 0 \/ now - entry.created < entry.ttl)

\* Client.get_prompt: the cached text on a hit; on a miss, on expiry and with
\* cache_ttl = 0 the backend's text. fetched says a backend call was made.
Client_get_prompt(key, cache_ttl) ==
    IF cache_ttl # 0 /\ Client_prompt_valid(prompts[key])
    THEN [text |-> prompts[key].text, fetched |-> FALSE]
    ELSE [text |-> backend[key], fetched |-> TRUE]

\* The cache after Client.get_prompt: a fetched text is stored with
\* creation_time = now and the call's TTL, unless caching is disabled.
Client_prompts_after(key, cache_ttl) ==
    IF Client_get_prompt(key, cache_ttl).fetched /\ cache_ttl # 0
    THEN [prompts EXCEPT ![key] = [cached |-> TRUE, text |-> backend[key],
                                   created |-> now, ttl |-> cache_ttl]]
    ELSE prompts

----------------------------------------------------------------------------
\* The object graph.

\* Session.step_history: the Steps of Session s, oldest first.
step_history(s) ==
    SelectSeq([i \in 1..Len(steps) |-> i], LAMBDA i : steps[i].session = s)

\* Step.event_history: the Events of Step t, oldest first.
event_history(t) ==
    SelectSeq([i \in 1..Len(events) |-> i], LAMBDA i : events[i].step = t)

\* Session.active_step: the current Step while it is unfinished, else None (0).
active_step(s) ==
    LET h == step_history(s) IN
    IF h = <<>> THEN 0
    ELSE IF steps[h[Len(h)]].is_finished THEN 0 ELSE h[Len(h)]

\* Python's x[index] for a negative index within range.
At(h, index) == h[Len(h) + 1 + index]

\* A partial update: an argument that is None leaves the field as it is.
Upd(old, new) == IF new = None THEN old ELSE new

\* Client() without arguments raises LucidicNotInitializedError until the
\* singleton has been constructed with credentials.
Client_not_initialized == ~initialized

\* Session.create_step refuses while the current Step is unfinished.
Session_create_step_rejects(s) == active_step(s) # 0

\* Client.reset leaves the facade without a Session; the singleton is kept or
\* dropped.
Client_reset == initialized' \in BOOLEAN

\* Client.init_session: a new Session becomes the facade's Session.
Client_init_session ==
    /\ sessions' = Append(sessions, [is_finished |-> FALSE, is_successful |-> None])
    /\ session' = Len(sessions) + 1

\* Session.update_session / Session.end_session on Session s.
Session_update_session(s, succ, fin) ==
    [sessions EXCEPT ![s] = [is_finished |-> (@.is_finished \/ fin),
                             is_successful |-> Upd(@.is_successful, succ)]]

\* Session.create_step: appends a new active Step.
Session_create_step(s, goal) ==
    Append(steps, [session |-> s, is_finished |-> FALSE, goal |-> goal])

\* Step.update_step on Step t (is_finished=True ends it).
Step_update_step(t, goal, fin) ==
    [steps EXCEPT ![t] = [session |-> @.session,
                          is_finished |-> (@.is_finished \/ fin),
                          goal |-> Upd(@.goal, goal)]]

\* Step.create_event: appends a new Event to Step t.
Step_create_event(t, result, model) ==
    Append(events, [step |-> t, is_finished |-> FALSE, is_successful |-> None,
                    result |-> result, model |-> model, cost_added |-> None])

\* Event.update_event on an Event that is already finished is rejected.
Event_update_event_rejects(e) == events[e].is_finished

\* Event.update_event on Event e.
Event_update_event(e, result, model, cost, succ, fin) ==
    [events EXCEPT ![e] = [step |-> @.step,
                           is_finished |-> (@.is_finished \/ fin),
                           is_successful |-> Upd(@.is_successful, succ),
                           result |-> Upd(@.result, result),
                           model |-> Upd(@.model, model),
                           cost_added |-> Upd(@.cost_added, cost)]]

----------------------------------------------------------------------------
\* A Session, Step or Event call, or a callback, arrives while the host
\* program runs and is between calls.
Between == last = Idle /\ pc = "running" /\ UNCHANGED aside

\* Nothing has been fetched, the process runs with Python's default SIGINT
\* handler, no callback thread is at work, no host object has callbacks.
InitAside ==
    /\ now = 0
    /\ prompts = [k \in PromptKeys |-> NoEntry]
    /\ backend = [k \in PromptKeys |-> <<"a">>]
    /\ got = NoResult
    /\ sigint = "default_int_handler"
    /\ original_handler = None
    /\ pc = "running"
    /\ interrupts = <<>>
    /\ threads = [t \in Threads |-> NoThread]
    /\ callbacks = [o \in Objects |-> NoCallbacks]

\* A Session has been opened by init(); the backend serves some template for
\* the prompt "p".
InitSubst ==
    /\ initialized = TRUE
    /\ session = 1
    /\ sessions = <<[is_finished |-> FALSE, is_successful |-> None]>>
    /\ steps = <<>>
    /\ events = <<>>
    /\ run_to_model = [r \in Runs |-> None]
    /\ run_to_event = [r \in Runs |-> 0]
    /\ last = Idle
    /\ now = 0
    /\ prompts = [k \in PromptKeys |-> NoEntry]
    /\ \E text \in Texts : backend = [k \in PromptKeys |-> text]
    /\ got = NoResult
    /\ sigint = "default_int_handler"
    /\ original_handler = None
    /\ pc = "running"
    /\ interrupts = <<>>
    /\ threads = [t \in Threads |-> NoThread]
    /\ callbacks = [o \in Objects |-> NoCallbacks]

\* A Session and a Step are open, and on_llm_start has been delivered for
\* none, one or both of the runs.
InitThreads ==
    /\ initialized = TRUE
    /\ session = 1
    /\ sessions = <<[is_finished |-> FALSE, is_successful |-> None]>>
    /\ steps = <<[session |-> 1, is_finished |-> FALSE, goal |-> None]>>
    /\ \E n \in 0..2 :
        /\ events = [e \in 1..n |-> [step |-> 1, is_finished |-> FALSE, is_successful |-> None,
                                     result |-> None, model |-> None, cost_added |-> None]]
        /\ run_to_event = [r \in Runs |-> IF r = "r1" /\ n >= 1 THEN 1
                                          ELSE IF r = "r2" /\ n >= 2 THEN 2 ELSE 0]
        /\ run_to_model = [r \in Runs |-> IF r = "r1" /\ n >= 1 THEN "m1"
                                          ELSE IF r = "r2" /\ n >= 2 THEN "m1" ELSE None]
    /\ last = Idle
    /\ InitAside

\* Nothing has been called; the host's objects hold any callbacks.
InitAttach ==
    /\ initialized = FALSE
    /\ session = 0
    /\ sessions = <<>>
    /\ steps = <<>>
    /\ events = <<>>
    /\ run_to_model = [r \in Runs |-> None]
    /\ run_to_event = [r \in Runs |-> 0]
    /\ last = Idle
    /\ now = 0
    /\ prompts = [k \in PromptKeys |-> NoEntry]
    /\ backend = [k \in PromptKeys |-> <<"a">>]
    /\ got = NoResult
    /\ sigint = default_int_handler
    /\ original_handler = None
    /\ pc = "running"
    /\ interrupts = <<>>
    /\ threads = [t \in Threads |-> NoThread]
    /\ callbacks \in [Objects -> CallbackValues]

Init ==
    /\ initialized = FALSE
    /\ session = 0
    /\ sessions = <<>>
    /\ steps = <<>>
    /\ events = <<>>
    /\ run_to_model = [r \in Runs |-> None]
    /\ run_to_event = [r \in Runs |-> 0]
    /\ last = Idle
    /\ InitAside

----------------------------------------------------------------------------
\* The facade's Session operations.

\* init as it would be without the test of client.session.
init_without_session_check(key, agent) ==
    /\ Between
    /\ LET arg == IF key /\ agent THEN "credentials" ELSE "missing" IN
       IF ~key \/ ~agent
       THEN Ret("init", APIKeyVerificationError, arg, 0, None) /\ UNCHANGED <<facade, tables>>
       ELSE /\ Len(sessions) < MaxSessions
            /\ initialized' = TRUE
            /\ Client_init_session
            /\ Ret("init", OK, arg, 0, None)
            /\ UNCHANGED <<steps, events, tables>>

\* init: key and agent say whether the API key and the agent id are given
\* (as an argument or in the environment).
init(key, agent) ==
    /\ Between
    /\ LET arg == IF key /\ agent THEN "credentials" ELSE "missing" IN
       IF ~key \/ ~agent
       THEN Ret("init", APIKeyVerificationError, arg, 0, None) /\ UNCHANGED <<facade, tables>>
       ELSE IF ~Client_not_initialized /\ session # 0
       THEN Ret("init", InvalidOperationError, arg, 0, None) /\ UNCHANGED <<facade, tables>>
       ELSE /\ Len(sessions) < MaxSessions
            /\ initialized' = TRUE
            /\ Client_init_session
            /\ Ret("init", OK, arg, 0, None)
            /\ UNCHANGED <<steps, events, tables>>

update_session(succ) ==
    /\ Between
    /\ IF Client_not_initialized
       THEN Ret("update_session", LucidicNotInitializedError, None, 0, None)
            /\ UNCHANGED <<facade, tables>>
       ELSE IF session = 0
       THEN Ret("update_session", WARN, None, 0, None) /\ UNCHANGED <<facade, tables>>
       ELSE /\ sessions' = Session_update_session(session, succ, FALSE)
            /\ Ret("update_session", OK, None, 0, None)
            /\ UNCHANGED <<initialized, session, steps, events, tables>>

\* end_session as it would be without the call of clear_session.
end_session_without_clear(succ) ==
    /\ Between
    /\ IF Client_not_initialized
       THEN Ret("end_session", LucidicNotInitializedError, None, 0, None)
            /\ UNCHANGED <<facade, tables>>
       ELSE IF session = 0
       THEN Ret("end_session", WARN, None, 0, None) /\ UNCHANGED <<facade, tables>>
       ELSE /\ sessions' = Session_update_session(session, succ, TRUE)
            /\ Ret("end_session", OK, None, 0, None)
            /\ UNCHANGED <<initialized, session, steps, events, tables>>

end_session(succ) ==
    /\ Between
    /\ IF Client_not_initialized
       THEN Ret("end_session", LucidicNotInitializedError, None, 0, None)
            /\ UNCHANGED <<facade, tables>>
       ELSE IF session = 0
       THEN Ret("end_session", WARN, None, 0, None) /\ UNCHANGED <<facade, tables>>
       ELSE /\ sessions' = Session_update_session(session, succ, TRUE)
            /\ session' = 0
            /\ Ret("end_session", OK, None, 0, None)
            /\ UNCHANGED <<initialized, steps, events, tables>>

\* reset: end_session() and then Client().reset(), after which the singleton
\* is either kept or dropped.
reset ==
    /\ Between
    /\ IF Client_not_initialized
       THEN Ret("reset", LucidicNotInitializedError, None, 0, None)
            /\ UNCHANGED <<facade, tables>>
       ELSE /\ IF session = 0
               THEN UNCHANGED <<session, sessions>>
               ELSE /\ sessions' = Session_update_session(session, None, TRUE)
                    /\ session' = 0
            /\ Client_reset
            /\ Ret("reset", OK, None, 0, None)
            /\ UNCHANGED <<steps, events, tables>>

----------------------------------------------------------------------------
\* The facade's Step operations.

\* create_step as it would be if it built the Step whatever the current one.
create_step_while_active(goal) ==
    /\ Between
    /\ IF Client_not_initialized
       THEN Ret("create_step", LucidicNotInitializedError, None, 0, None)
            /\ UNCHANGED <<facade, tables>>
       ELSE IF session = 0
       THEN Ret("create_step", WARN, None, 0, None) /\ UNCHANGED <<facade, tables>>
       ELSE /\ Len(steps) < MaxSteps
            /\ steps' = Session_create_step(session, goal)
            /\ Ret("create_step", OK, None, 0, None)
            /\ UNCHANGED <<initialized, session, sessions, events, tables>>

create_step(goal) ==
    /\ Between
    /\ IF Client_not_initialized
       THEN Ret("create_step", LucidicNotInitializedError, None, 0, None)
            /\ UNCHANGED <<facade, tables>>
       ELSE IF session = 0
       THEN Ret("create_step", WARN, None, 0, None) /\ UNCHANGED <<facade, tables>>
       ELSE IF Session_create_step_rejects(session)
       THEN Ret("create_step", InvalidOperationError, None, 0, None)
            /\ UNCHANGED <<facade, tables>>
       ELSE /\ Len(steps) < MaxSteps
            /\ steps' = Session_create_step(session, goal)
            /\ Ret("create_step", OK, None, 0, None)
            /\ UNCHANGED <<initialized, session, sessions, events, tables>>

update_step(goal) ==
    /\ Between
    /\ IF Client_not_initialized
       THEN Ret("update_step", LucidicNotInitializedError, None, 0, None)
            /\ UNCHANGED <<facade, tables>>
       ELSE IF session = 0
       THEN Ret("update_step", WARN, None, 0, None) /\ UNCHANGED <<facade, tables>>
       ELSE IF active_step(session) = 0
       THEN Ret("update_step", InvalidOperationError, None, 0, None)
            /\ UNCHANGED <<facade, tables>>
       ELSE /\ steps' = Step_update_step(active_step(session), goal, FALSE)
            /\ Ret("update_step", OK, None, 0, None)
            /\ UNCHANGED <<initialized, session, sessions, events, tables>>

\* update_previous_step as it would be if an index below -len(step_history)
\* were taken for an empty slot: a warning and nothing done.
update_previous_step_without_bounds_check(index, goal) ==
    /\ Between
    /\ IF Client_not_initialized
       THEN Ret("update_previous_step", LucidicNotInitializedError, goal, index, None)
            /\ UNCHANGED <<facade, tables>>
       ELSE IF session = 0
       THEN Ret("update_previous_step", WARN, goal, index, None)
            /\ UNCHANGED <<facade, tables>>
       ELSE IF index >= 0
       THEN Ret("update_previous_step", InvalidOperationError, goal, index, None)
            /\ UNCHANGED <<facade, tables>>
       ELSE IF index < 0 - Len(step_history(session))
       THEN Ret("update_previous_step", WARN, goal, index, None)
            /\ UNCHANGED <<facade, tables>>
       ELSE /\ steps' = Step_update_step(At(step_history(session), index), goal, FALSE)
            /\ Ret("update_previous_step", OK, goal, index, None)
            /\ UNCHANGED <<initialized, session, sessions, events, tables>>

update_previous_step(index, goal) ==
    /\ Between
    /\ IF Client_not_initialized
       THEN Ret("update_previous_step", LucidicNotInitializedError, goal, index, None)
            /\ UNCHANGED <<facade, tables>>
       ELSE IF session = 0
       THEN Ret("update_previous_step", WARN, goal, index, None)
            /\ UNCHANGED <<facade, tables>>
       ELSE IF index >= 0 \/ index < 0 - Len(step_history(session))
       THEN Ret("update_previous_step", InvalidOperationError, goal, index, None)
            /\ UNCHANGED <<facade, tables>>
       ELSE /\ steps' = Step_update_step(At(step_history(session), index), goal, FALSE)
            /\ Ret("update_previous_step", OK, goal, index, None)
            /\ UNCHANGED <<initialized, session, sessions, events, tables>>

\* end_step as it would be if a missing active Step were only a warning.
end_step_without_raise(goal) ==
    /\ Between
    /\ IF Client_not_initialized
       THEN Ret("end_step", LucidicNotInitializedError, None, 0, None)
            /\ UNCHANGED <<facade, tables>>
       ELSE IF session = 0 \/ active_step(session) = 0
       THEN Ret("end_step", WARN, None, 0, None) /\ UNCHANGED <<facade, tables>>
       ELSE /\ steps' = Step_update_step(active_step(session), goal, TRUE)
            /\ Ret("end_step", OK, None, 0, None)
            /\ UNCHANGED <<initialized, session, sessions, events, tables>>

end_step(goal) ==
    /\ Between
    /\ IF Client_not_initialized
       THEN Ret("end_step", LucidicNotInitializedError, None, 0, None)
            /\ UNCHANGED <<facade, tables>>
       ELSE IF session = 0
       THEN Ret("end_step", WARN, None, 0, None) /\ UNCHANGED <<facade, tables>>
       ELSE IF active_step(session) = 0
       THEN Ret("end_step", InvalidOperationError, None, 0, None)
            /\ UNCHANGED <<facade, tables>>
       ELSE /\ steps' = Step_update_step(active_step(session), goal, TRUE)
            /\ Ret("end_step", OK, None, 0, None)
            /\ UNCHANGED <<initialized, session, sessions, events, tables>>

----------------------------------------------------------------------------
\* The facade's Event operations.

\* create_event as it would be if it took step_history[-1] for the active Step.
create_event_in_latest_step(result) ==
    /\ Between
    /\ IF Client_not_initialized
       THEN Ret("create_event", LucidicNotInitializedError, None, 0, None)
            /\ UNCHANGED <<facade, tables>>
       ELSE IF session = 0
       THEN Ret("create_event", WARN, None, 0, None) /\ UNCHANGED <<facade, tables>>
       ELSE IF step_history(session) = <<>>
       THEN Ret("create_event", InvalidOperationError, None, 0, None)
            /\ UNCHANGED <<facade, tables>>
       ELSE /\ Len(events) < MaxEvents
            /\ events' = Step_create_event(At(step_history(session), -1), result, None)
            /\ Ret("create_event", OK, None, 0, None)
            /\ UNCHANGED <<initialized, session, sessions, steps, tables>>

create_event(result) ==
    /\ Between
    /\ IF Client_not_initialized
       THEN Ret("create_event", LucidicNotInitializedError, None, 0, None)
            /\ UNCHANGED <<facade, tables>>
       ELSE IF session = 0
       THEN Ret("create_event", WARN, None, 0, None) /\ UNCHANGED <<facade, tables>>
       ELSE IF active_step(session) = 0
       THEN Ret("create_event", InvalidOperationError, None, 0, None)
            /\ UNCHANGED <<facade, tables>>
       ELSE /\ Len(events) < MaxEvents
            /\ events' = Step_create_event(active_step(session), result, None)
            /\ Ret("create_event", OK, None, 0, None)
            /\ UNCHANGED <<initialized, session, sessions, steps, tables>>

\* update_event as it would be if an empty event history were only a warning.
update_event_without_raise(result) ==
    /\ Between
    /\ IF Client_not_initialized
       THEN Ret("update_event", LucidicNotInitializedError, None, 0, None)
            /\ UNCHANGED <<facade, tables>>
       ELSE IF session = 0
       THEN Ret("update_event", WARN, None, 0, None) /\ UNCHANGED <<facade, tables>>
       ELSE IF active_step(session) = 0
       THEN Ret("update_event", InvalidOperationError, None, 0, None)
            /\ UNCHANGED <<facade, tables>>
       ELSE IF event_history(active_step(session)) = <<>>
       THEN Ret("update_event", WARN, None, 0, None) /\ UNCHANGED <<facade, tables>>
       ELSE LET e == At(event_history(active_step(session)), -1) IN
            IF Event_update_event_rejects(e)
            THEN Ret("update_event", InvalidOperationError, None, 0, None)
                 /\ UNCHANGED <<facade, tables>>
            ELSE /\ events' = Event_update_event(e, result, None, None, None, FALSE)
                 /\ Ret("update_event", OK, None, 0, None)
                 /\ UNCHANGED <<initialized, session, sessions, steps, tables>>

update_event(result) ==
    /\ Between
    /\ IF Client_not_initialized
       THEN Ret("update_event", LucidicNotInitializedError, None, 0, None)
            /\ UNCHANGED <<facade, tables>>
       ELSE IF session = 0
       THEN Ret("update_event", WARN, None, 0, None) /\ UNCHANGED <<facade, tables>>
       ELSE IF active_step(session) = 0 \/ event_history(active_step(session)) = <<>>
       THEN Ret("update_event", InvalidOperationError, None, 0, None)
            /\ UNCHANGED <<facade, tables>>
       ELSE LET e == At(event_history(active_step(session)), -1) IN
            IF Event_update_event_rejects(e)
            THEN Ret("update_event", InvalidOperationError, None, 0, None)
                 /\ UNCHANGED <<facade, tables>>
            ELSE /\ events' = Event_update_event(e, result, None, None, None, FALSE)
                 /\ Ret("update_event", OK, None, 0, None)
                 /\ UNCHANGED <<initialized, session, sessions, steps, tables>>

\* update_previous_event as it would be if a finished Event took updates.
update_previous_event_on_finished(index, result) ==
    /\ Between
    /\ IF Client_not_initialized
       THEN Ret("update_previous_event", LucidicNotInitializedError, result, index, None)
            /\ UNCHANGED <<facade, tables>>
       ELSE IF session = 0
       THEN Ret("update_previous_event", WARN, result, index, None)
            /\ UNCHANGED <<facade, tables>>
       ELSE IF \/ active_step(session) = 0
               \/ event_history(active_step(session)) = <<>>
               \/ index >= 0
               \/ index < 0 - Len(event_history(active_step(session)))
       THEN Ret("update_previous_event", InvalidOperationError, result, index, None)
            /\ UNCHANGED <<facade, tables>>
       ELSE LET e == At(event_history(active_step(session)), index) IN
            /\ events' = Event_update_event(e, result, None, None, None, FALSE)
            /\ Ret("update_previous_event", OK, result, index, None)
            /\ UNCHANGED <<initialized, session, sessions, steps, tables>>

\* update_previous_event as it would be if it counted the index from the
\* oldest Event: event_history[-index - 1].
update_previous_event_from_oldest(index, result) ==
    /\ Between
    /\ IF Client_not_initialized
       THEN Ret("update_previous_event", LucidicNotInitializedError, result, index, None)
            /\ UNCHANGED <<facade, tables>>
       ELSE IF session = 0
       THEN Ret("update_previous_event", WARN, result, index, None)
            /\ UNCHANGED <<facade, tables>>
       ELSE IF \/ active_step(session) = 0
               \/ event_history(active_step(session)) = <<>>
               \/ index >= 0
               \/ index < 0 - Len(event_history(active_step(session)))
       THEN Ret("update_previous_event", InvalidOperationError, result, index, None)
            /\ UNCHANGED <<facade, tables>>
       ELSE LET e == event_history(active_step(session))[0 - index] IN
            IF Event_update_event_rejects(e)
            THEN Ret("update_previous_event", InvalidOperationError, result, index, None)
                 /\ UNCHANGED <<facade, tables>>
            ELSE /\ events' = Event_update_event(e, result, None, None, None, FALSE)
                 /\ Ret("update_previous_event", OK, result, index, None)
                 /\ UNCHANGED <<initialized, session, sessions, steps, tables>>

update_previous_event(index, result) ==
    /\ Between
    /\ IF Client_not_initialized
       THEN Ret("update_previous_event", LucidicNotInitializedError, result, index, None)
            /\ UNCHANGED <<facade, tables>>
       ELSE IF session = 0
       THEN Ret("update_previous_event", WARN, result, index, None)
            /\ UNCHANGED <<facade, tables>>
       ELSE IF \/ active_step(session) = 0
               \/ event_history(active_step(session)) = <<>>
               \/ index >= 0
               \/ index < 0 - Len(event_history(active_step(session)))
       THEN Ret("update_previous_event", InvalidOperationError, result, index, None)
            /\ UNCHANGED <<facade, tables>>
       ELSE LET e == At(event_history(active_step(session)), index) IN
            IF Event_update_event_rejects(e)
            THEN Ret("update_previous_event", InvalidOperationError, result, index, None)
                 /\ UNCHANGED <<facade, tables>>
            ELSE /\ events' = Event_update_event(e, result, None, None, None, FALSE)
                 /\ Ret("update_previous_event", OK, result, index, None)
                 /\ UNCHANGED <<initialized, session, sessions, steps, tables>>

\* end_event as it would be without the test of latest_event.is_finished.
end_event_without_finished_check(result) ==
    /\ Between
    /\ IF Client_not_initialized
       THEN Ret("end_event", LucidicNotInitializedError, None, 0, None)
            /\ UNCHANGED <<facade, tables>>
       ELSE IF session = 0
       THEN Ret("end_event", WARN, None, 0, None) /\ UNCHANGED <<facade, tables>>
       ELSE IF active_step(session) = 0 \/ event_history(active_step(session)) = <<>>
       THEN Ret("end_event", InvalidOperationError, None, 0, None)
            /\ UNCHANGED <<facade, tables>>
       ELSE LET latest_event == At(event_history(active_step(session)), -1) IN
            /\ events' = Event_update_event(latest_event, result, None, None, None, TRUE)
            /\ Ret("end_event", OK, None, 0, None)
            /\ UNCHANGED <<initialized, session, sessions, steps, tables>>

end_event(result) ==
    /\ Between
    /\ IF Client_not_initialized
       THEN Ret("end_event", LucidicNotInitializedError, None, 0, None)
            /\ UNCHANGED <<facade, tables>>
       ELSE IF session = 0
       THEN Ret("end_event", WARN, None, 0, None) /\ UNCHANGED <<facade, tables>>
       ELSE IF active_step(session) = 0 \/ event_history(active_step(session)) = <<>>
       THEN Ret("end_event", InvalidOperationError, None, 0, None)
            /\ UNCHANGED <<facade, tables>>
       ELSE LET latest_event == At(event_history(active_step(session)), -1) IN
            IF events[latest_event].is_finished
            THEN Ret("end_event", InvalidOperationError, None, 0, None)
                 /\ UNCHANGED <<facade, tables>>
            ELSE /\ events' = Event_update_event(latest_event, result, None, None, None, TRUE)
                 /\ Ret("end_event", OK, None, 0, None)
                 /\ UNCHANGED <<initialized, session, sessions, steps, tables>>

----------------------------------------------------------------------------
\* The LangChain callback handler.

\* The handler's test "Client().session and Client().session.active_step".
HasActiveStep == session # 0 /\ active_step(session) # 0

\* dict.get(run, "unknown") on run_to_model.
StoredModel(run) == IF run_to_model[run] = None THEN "unknown" ELSE run_to_model[run]

\* on_llm_start as it would be if the handler kept one current model name for
\* all runs.
on_llm_start_shared_model(run, model) ==
    /\ Between
    /\ /\ run_to_model' = [r \in Runs |-> model]
       /\ IF Client_not_initialized
          THEN Ret("on_llm_start", LucidicNotInitializedError, None, 0, run)
               /\ UNCHANGED <<facade, run_to_event>>
          ELSE IF ~HasActiveStep
          THEN Ret("on_llm_start", LOGGED, None, 0, run)
               /\ UNCHANGED <<facade, run_to_event>>
          ELSE /\ Len(events) < MaxEvents
               /\ events' = Step_create_event(active_step(session), None, None)
               /\ run_to_event' = [run_to_event EXCEPT ![run] = Len(events) + 1]
               /\ Ret("on_llm_start", OK, None, 0, run)
               /\ UNCHANGED <<initialized, session, sessions, steps>>

\* on_llm_start (on_chat_model_start stores and creates the same way).
on_llm_start(run, model) ==
    /\ Between
    /\ /\ run_to_model' = [run_to_model EXCEPT ![run] = model]
       /\ IF Client_not_initialized
          THEN Ret("on_llm_start", LucidicNotInitializedError, None, 0, run)
               /\ UNCHANGED <<facade, run_to_event>>
          ELSE IF ~HasActiveStep
          THEN Ret("on_llm_start", LOGGED, None, 0, run)
               /\ UNCHANGED <<facade, run_to_event>>
          ELSE /\ Len(events) < MaxEvents
               /\ events' = Step_create_event(active_step(session), None, None)
               /\ run_to_event' = [run_to_event EXCEPT ![run] = Len(events) + 1]
               /\ Ret("on_llm_start", OK, None, 0, run)
               /\ UNCHANGED <<initialized, session, sessions, steps>>

\* on_llm_end: generations says whether response.generations[0] is non-empty;
\* only then are message and cost bound.
on_llm_end(run, generations) ==
    /\ Between
    /\ LET model == StoredModel(run)
           cost == IF generations THEN "cost" ELSE None
           event == run_to_event[run]
       IN
       IF Client_not_initialized
       THEN Ret("on_llm_end", LucidicNotInitializedError, None, 0, run)
            /\ UNCHANGED <<facade, tables>>
       ELSE IF ~HasActiveStep
       THEN Ret("on_llm_end", LOGGED, None, 0, run) /\ UNCHANGED <<facade, tables>>
       ELSE /\ run_to_model' = [run_to_model EXCEPT ![run] = None]
            /\ UNCHANGED <<initialized, session, sessions, steps>>
            /\ IF event = 0
               THEN Ret("on_llm_end", LOGGED, None, 0, run)
                    /\ UNCHANGED <<events, run_to_event>>
               ELSE IF events[event].is_finished
               THEN /\ run_to_event' = [run_to_event EXCEPT ![run] = 0]
                    /\ Ret("on_llm_end", LOGGED, None, 0, run)
                    /\ UNCHANGED events
               ELSE IF ~generations
               \* "message" is unbound: the NameError is caught and printed
               THEN Ret("on_llm_end", LOGGED, None, 0, run)
                    /\ UNCHANGED <<events, run_to_event>>
               ELSE /\ events' = Event_update_event(event, "result", model, cost, "True", TRUE)
                    /\ run_to_event' = [run_to_event EXCEPT ![run] = 0]
                    /\ Ret("on_llm_end", OK, None, 0, run)

on_llm_error(run) ==
    /\ Between
    /\ LET model == StoredModel(run)
           event == run_to_event[run]
       IN
       IF Client_not_initialized
       THEN Ret("on_llm_error", LucidicNotInitializedError, None, 0, run)
            /\ UNCHANGED <<facade, tables>>
       ELSE IF ~HasActiveStep
       THEN Ret("on_llm_error", LOGGED, None, 0, run) /\ UNCHANGED <<facade, tables>>
       ELSE /\ run_to_model' = [run_to_model EXCEPT ![run] = None]
            /\ UNCHANGED <<initialized, session, sessions, steps>>
            /\ IF event = 0
               THEN Ret("on_llm_error", LOGGED, None, 0, run)
                    /\ UNCHANGED <<events, run_to_event>>
               ELSE /\ run_to_event' = [run_to_event EXCEPT ![run] = 0]
                    /\ IF events[event].is_finished
                       THEN Ret("on_llm_error", LOGGED, None, 0, run) /\ UNCHANGED events
                       ELSE /\ events' = Event_update_event(event, None, model, None, None, TRUE)
                            /\ Ret("on_llm_error", OK, None, 0, run)

\* The part the chain, tool and retriever start handlers share: the test of
\* the active Step, then create_event and the entry in run_to_event.
create_run_event(op, run) ==
    IF Client_not_initialized
    THEN Ret(op, LucidicNotInitializedError, None, 0, run) /\ UNCHANGED <<facade, tables>>
    ELSE IF ~HasActiveStep
    THEN Ret(op, LOGGED, None, 0, run) /\ UNCHANGED <<facade, tables>>
    ELSE /\ Len(events) < MaxEvents
         /\ events' = Step_create_event(active_step(session), None, None)
         /\ run_to_event' = [run_to_event EXCEPT ![run] = Len(events) + 1]
         /\ Ret(op, OK, None, 0, run)
         /\ UNCHANGED <<initialized, session, sessions, steps, run_to_model>>

\* The part the chain, tool and retriever end and error handlers share: the
\* test of the active Step, then update_event on the run's Event unless it is
\* finished, and the removal of the run's entry.
finish_run_event(op, run, succ, result) ==
    LET event == run_to_event[run] IN
    IF Client_not_initialized
    THEN Ret(op, LucidicNotInitializedError, None, 0, run) /\ UNCHANGED <<facade, tables>>
    ELSE IF ~HasActiveStep \/ event = 0
    THEN Ret(op, LOGGED, None, 0, run) /\ UNCHANGED <<facade, tables>>
    ELSE /\ run_to_event' = [run_to_event EXCEPT ![run] = 0]
         /\ UNCHANGED <<initialized, session, sessions, steps, run_to_model>>
         /\ IF events[event].is_finished
            THEN Ret(op, LOGGED, None, 0, run) /\ UNCHANGED events
            ELSE /\ events' = Event_update_event(event, result, None, None, succ, TRUE)
                 /\ Ret(op, OK, None, 0, run)

\* on_chain_start: inputs says whether the inputs dict is non-empty; then
\* inputs[0] is looked up in a dict keyed by strings, before any try.
on_chain_start(run, inputs) ==
    /\ Between
    /\ IF inputs
       THEN Ret("on_chain_start", KeyError, None, 0, run) /\ UNCHANGED <<facade, tables>>
       ELSE create_run_event("on_chain_start", run)

on_chain_end(run, outputs) ==
    /\ Between
    /\ finish_run_event("on_chain_end", run, "True", IF outputs THEN "result" ELSE None)

on_chain_error(run) ==
    /\ Between
    /\ finish_run_event("on_chain_error", run, "False", None)

on_tool_start(run) ==
    /\ Between
    /\ create_run_event("on_tool_start", run)

on_tool_end(run, output) ==
    /\ Between
    /\ finish_run_event("on_tool_end", run, "True", IF output THEN "result" ELSE None)

on_tool_error(run) ==
    /\ Between
    /\ finish_run_event("on_tool_error", run, "False", None)

on_retriever_start(run) ==
    /\ Between
    /\ create_run_event("on_retriever_start", run)

on_retriever_end(run, documents) ==
    /\ Between
    /\ finish_run_event("on_retriever_end", run, "True", IF documents THEN "result" ELSE None)

on_retriever_error(run) ==
    /\ Between
    /\ finish_run_event("on_retriever_error", run, "False", None)

----------------------------------------------------------------------------
\* The prompt entry point.

\* get_prompt as it would be without the test of client.session.
get_prompt_without_session_check(prompt_name, variables, cache_ttl) ==
    /\ last = Idle
    /\ pc = "running"
    /\ UNCHANGED <<facade, tables, now, backend, exit, threads, callbacks>>
    /\ IF Client_not_initialized
       THEN /\ Ret("get_prompt", LucidicNotInitializedError, prompt_name, cache_ttl, None)
            /\ UNCHANGED <<prompts, got>>
       ELSE LET fetch == Client_get_prompt(prompt_name, cache_ttl)
                prompt == Substitute(fetch.text, variables)
            IN  /\ prompts' = Client_prompts_after(prompt_name, cache_ttl)
                /\ IF prompt.raised
                   THEN /\ Ret("get_prompt", PromptError, prompt_name, cache_ttl, None)
                        /\ got' = [text |-> <<>>, fetched |-> fetch.fetched, warned |-> FALSE,
                                   variables |-> variables]
                   ELSE /\ Ret("get_prompt", OK, prompt_name, cache_ttl, None)
                        /\ got' = [text |-> prompt.text, fetched |-> fetch.fetched,
                                   warned |-> UnreplacedWarning(prompt.text),
                                   variables |-> variables]

\* get_prompt: prompt_name stands for the pair (prompt_name, label).
get_prompt(prompt_name, variables, cache_ttl) ==
    /\ last = Idle
    /\ pc = "running"
    /\ UNCHANGED <<facade, tables, now, backend, exit, threads, callbacks>>
    /\ IF Client_not_initialized
       THEN /\ Ret("get_prompt", LucidicNotInitializedError, prompt_name, cache_ttl, None)
            /\ UNCHANGED <<prompts, got>>
       ELSE IF session = 0
       THEN /\ Ret("get_prompt", WARN, prompt_name, cache_ttl, None)
            /\ got' = [text |-> <<>>, fetched |-> FALSE, warned |-> FALSE,
                       variables |-> variables]
            /\ UNCHANGED prompts
       ELSE LET fetch == Client_get_prompt(prompt_name, cache_ttl)
                prompt == Substitute(fetch.text, variables)
            IN  /\ prompts' = Client_prompts_after(prompt_name, cache_ttl)
                /\ IF prompt.raised
                   THEN /\ Ret("get_prompt", PromptError, prompt_name, cache_ttl, None)
                        /\ got' = [text |-> <<>>, fetched |-> fetch.fetched, warned |-> FALSE,
                                   variables |-> variables]
                   ELSE /\ Ret("get_prompt", OK, prompt_name, cache_ttl, None)
                        /\ got' = [text |-> prompt.text, fetched |-> fetch.fetched,
                                   warned |-> UnreplacedWarning(prompt.text),
                                   variables |-> variables]

\* Time passes between two calls.
Tick ==
    /\ last = Idle
    /\ now < MaxTime
    /\ now' = now + 1
    /\ UNCHANGED <<facade, tables, last, prompts, backend, got, exit, threads, callbacks>>

\* The prompt database is edited: the backend serves another template.
backend_edit(key, text) ==
    /\ last = Idle
    /\ backend[key] # text
    /\ backend' = [backend EXCEPT ![key] = text]
    /\ UNCHANGED <<facade, tables, last, now, prompts, got, exit, threads, callbacks>>

----------------------------------------------------------------------------
\* The agent callbacks.

\* on_agent_action: an Event is created in the active Step, stored for the run
\* id, ended at once, and the entry of the run id is deleted.
on_agent_action(run) ==
    /\ Between
    /\ IF Client_not_initialized
       THEN Ret("on_agent_action", LucidicNotInitializedError, None, 0, run)
            /\ UNCHANGED <<facade, tables>>
       ELSE IF ~HasActiveStep
       THEN Ret("on_agent_action", LOGGED, None, 0, run) /\ UNCHANGED <<facade, tables>>
       ELSE /\ Len(events) < MaxEvents
            /\ LET created == Step_create_event(active_step(session), None, None)
               IN  events' = [created EXCEPT ![Len(created)].is_finished = TRUE,
                                             ![Len(created)].is_successful = "True",
                                             ![Len(created)].result = "result"]
            /\ run_to_event' = [run_to_event EXCEPT ![run] = 0]
            /\ Ret("on_agent_action", OK, None, 0, run)
            /\ UNCHANGED <<initialized, session, sessions, steps, run_to_model>>

\* on_agent_finish: update_event(is_finished=True, ...) on the active Step,
\* which acts on the Step's latest Event; its exceptions are caught.
on_agent_finish(run) ==
    /\ Between
    /\ IF Client_not_initialized
       THEN Ret("on_agent_finish", LucidicNotInitializedError, None, 0, run)
            /\ UNCHANGED <<facade, tables>>
       ELSE IF ~HasActiveStep
       THEN Ret("on_agent_finish", LOGGED, None, 0, run) /\ UNCHANGED <<facade, tables>>
       ELSE IF event_history(active_step(session)) = <<>>
       THEN Ret("on_agent_finish", LOGGED, None, 0, run) /\ UNCHANGED <<facade, tables>>
       ELSE LET e == At(event_history(active_step(session)), -1) IN
            IF Event_update_event_rejects(e)
            THEN Ret("on_agent_finish", LOGGED, None, 0, run) /\ UNCHANGED <<facade, tables>>
            ELSE /\ events' = Event_update_event(e, "result", None, None, "True", TRUE)
                 /\ Ret("on_agent_finish", OK, None, 0, run)
                 /\ UNCHANGED <<initialized, session, sessions, steps, tables>>

----------------------------------------------------------------------------
\* The exit of the process.

\* The host program installs a handler for SIGINT, or Python's own again.
signal_install(handler) ==
    /\ pc = "running"
    /\ last = Idle
    /\ sigint # handler
    /\ sigint' = handler
    /\ UNCHANGED <<facade, tables, last, cache, original_handler, pc, interrupts,
                   threads, callbacks>>

\* A SIGINT arrives. SIG_IGN drops it and a handler of the host returns;
\* Python's own handler raises KeyboardInterrupt where the process is: the
\* running program is unwound to its exit, the body of cleanup to its finally
\* clause.
SIGINT ==
    /\ pc # "exited"
    /\ pc = "running" => last = Idle
    /\ Len(interrupts) < MaxInterrupts
    /\ interrupts' = Append(interrupts, pc)
    /\ IF sigint = default_int_handler /\ pc = "running"
       THEN pc' = "interrupted" /\ UNCHANGED last
       ELSE IF sigint = default_int_handler /\ pc \in CleanupBody
       THEN pc' = "finally" /\ Ret("cleanup", KeyboardInterrupt, None, 0, None)
       ELSE UNCHANGED <<pc, last>>
    /\ UNCHANGED <<facade, tables, cache, sigint, original_handler, threads, callbacks>>

\* cleanup as it would be without masking SIGINT.
cleanup_begin_without_mask ==
    /\ \/ pc = "running" /\ last = Idle
       \/ pc = "interrupted"
    /\ original_handler' = sigint
    /\ pc' = "cleanup_client"
    /\ UNCHANGED <<facade, tables, last, cache, sigint, interrupts, threads, callbacks>>

\* The process exits, at its end or unwound by KeyboardInterrupt, and atexit
\* calls cleanup, which first masks SIGINT.
cleanup_begin ==
    /\ \/ pc = "running" /\ last = Idle
       \/ pc = "interrupted"
    /\ original_handler' = sigint
    /\ sigint' = SIG_IGN
    /\ pc' = "cleanup_client"
    /\ UNCHANGED <<facade, tables, last, cache, interrupts, threads, callbacks>>

\* cleanup looks for an active Session; LucidicNotInitializedError is caught.
cleanup_client ==
    /\ pc = "cleanup_client"
    /\ IF Client_not_initialized \/ session = 0
       THEN pc' = "finally" /\ Ret("cleanup", OK, None, 0, None)
       ELSE pc' = "end_session" /\ UNCHANGED last
    /\ UNCHANGED <<facade, tables, cache, sigint, original_handler, interrupts,
                   threads, callbacks>>

\* end_session() inside cleanup: the Session's end_session returns, or its
\* backend call raises.
cleanup_end_session ==
    /\ pc = "end_session"
    /\ \/ /\ sessions' = Session_update_session(session, None, TRUE)
          /\ pc' = "clear_session"
          /\ UNCHANGED last
       \/ /\ pc' = "finally"
          /\ Ret("cleanup", Exception, None, 0, None)
          /\ UNCHANGED sessions
    /\ UNCHANGED <<initialized, session, steps, events, tables, cache, sigint,
                   original_handler, interrupts, threads, callbacks>>

\* end_session() inside cleanup: clear_session.
cleanup_clear_session ==
    /\ pc = "clear_session"
    /\ session' = 0
    /\ pc' = "finally"
    /\ Ret("cleanup", OK, None, 0, None)
    /\ UNCHANGED <<initialized, sessions, steps, events, tables, cache, sigint,
                   original_handler, interrupts, threads, callbacks>>

\* The finally clause of cleanup; an exception in flight goes on to atexit.
cleanup_finally ==
    /\ pc = "finally"
    /\ sigint' = original_handler
    /\ pc' = "exited"
    /\ UNCHANGED <<facade, tables, last, cache, original_handler, interrupts,
                   threads, callbacks>>

----------------------------------------------------------------------------
\* on_llm_end and on_llm_error delivered on the threads of the host
\* framework, statement by statement. There is no lock in the handler: what
\* one thread does between two statements of another is not restricted.

\* The thread goes to position at.
Goto(t, at) == threads' = [threads EXCEPT ![t].at = at]

\* The thread returns from the callback, or the callback raises.
Return(t, out) == threads' = [threads EXCEPT ![t].at = "done", ![t].out = out]

\* The framework calls op on thread t: run_str and the model name are read.
thread_call(t, op, run) ==
    /\ pc = "running"
    /\ threads[t].at = "idle"
    /\ threads' = [threads EXCEPT ![t] = [at |-> "session", op |-> op, run |-> run,
                                          model |-> StoredModel(run), event |-> 0,
                                          wrote |-> FALSE, out |-> None]]
    /\ UNCHANGED <<facade, tables, last, cache, exit, callbacks>>

\* if not (Client().session and Client().session.active_step): return
thread_session(t) ==
    /\ threads[t].at = "session"
    /\ IF Client_not_initialized THEN Return(t, LucidicNotInitializedError)
       ELSE IF ~HasActiveStep THEN Return(t, LOGGED)
       ELSE Goto(t, "in_run_to_event")
    /\ UNCHANGED <<facade, tables, last, cache, exit, callbacks>>

\* if run_str in self.run_to_event
thread_in_run_to_event(t) ==
    /\ threads[t].at = "in_run_to_event"
    /\ IF run_to_event[threads[t].run] # 0 THEN Goto(t, "event") ELSE Goto(t, "in_run_to_model")
    /\ UNCHANGED <<facade, tables, last, cache, exit, callbacks>>

\* event = self.run_to_event[run_str]; a KeyError is caught by the except
\* clause.
thread_event(t) ==
    /\ threads[t].at = "event"
    /\ IF run_to_event[threads[t].run] = 0
       THEN Goto(t, "in_run_to_model")
       ELSE threads' = [threads EXCEPT ![t].at = "is_finished",
                                       ![t].event = run_to_event[threads[t].run]]
    /\ UNCHANGED <<facade, tables, last, cache, exit, callbacks>>

\* if not event.is_finished
thread_is_finished(t) ==
    /\ threads[t].at = "is_finished"
    /\ IF events[threads[t].event].is_finished
       THEN Goto(t, "del_run_to_event")
       ELSE Goto(t, "update_event")
    /\ UNCHANGED <<facade, tables, last, cache, exit, callbacks>>

\* event.update_event(is_finished=True, ...); the InvalidOperationError of a
\* finished Event is caught by the except clause.
thread_update_event(t) ==
    /\ threads[t].at = "update_event"
    /\ IF Event_update_event_rejects(threads[t].event)
       THEN Goto(t, "in_run_to_model") /\ UNCHANGED events
       ELSE /\ events' = IF threads[t].op = "on_llm_end"
                         THEN Event_update_event(threads[t].event, "result", threads[t].model,
                                                 "cost", "True", TRUE)
                         ELSE Event_update_event(threads[t].event, None, threads[t].model,
                                                 None, None, TRUE)
            /\ threads' = [threads EXCEPT ![t].at = "del_run_to_event", ![t].wrote = TRUE]
    /\ UNCHANGED <<initialized, session, sessions, steps, tables, last, cache, exit, callbacks>>

\* del self.run_to_event[run_str]; a KeyError is caught by the except clause.
thread_del_run_to_event(t) ==
    /\ threads[t].at = "del_run_to_event"
    /\ run_to_event' = [run_to_event EXCEPT ![threads[t].run] = 0]
    /\ Goto(t, "in_run_to_model")
    /\ UNCHANGED <<facade, run_to_model, last, cache, exit, callbacks>>

\* if run_str in self.run_to_model
thread_in_run_to_model(t) ==
    /\ threads[t].at = "in_run_to_model"
    /\ IF run_to_model[threads[t].run] # None
       THEN Goto(t, "del_run_to_model")
       ELSE Return(t, IF threads[t].wrote THEN OK ELSE LOGGED)
    /\ UNCHANGED <<facade, tables, last, cache, exit, callbacks>>

\* del self.run_to_model[run_str], outside the try statement: a KeyError
\* leaves the callback.
thread_del_run_to_model(t) ==
    /\ threads[t].at = "del_run_to_model"
    /\ IF run_to_model[threads[t].run] = None
       THEN Return(t, KeyError) /\ UNCHANGED run_to_model
       ELSE /\ run_to_model' = [run_to_model EXCEPT ![threads[t].run] = None]
            /\ Return(t, IF threads[t].wrote THEN OK ELSE LOGGED)
    /\ UNCHANGED <<facade, run_to_event, last, cache, exit, callbacks>>

\* The framework goes on after the callback.
thread_return(t) ==
    /\ threads[t].at = "done"
    /\ threads' = [threads EXCEPT ![t] = NoThread]
    /\ UNCHANGED <<facade, tables, last, cache, exit, callbacks>>

----------------------------------------------------------------------------
\* The attachment of the handler to the host's objects.

\* What attach_to_llms leaves in the callbacks attribute c of one object:
\* self is appended to `c or []` unless an instance of LucidicLangchainHandler
\* is in it.
Attach(c, self) ==
    IF c.kind = "absent" THEN c
    ELSE IF \E i \in 1..Len(c.items) : c.items[i] \in LucidicLangchainHandler THEN c
    ELSE [kind |-> "list", items |-> Append(c.items, self)]

\* attach_to_llms: the target itself, then each of its attributes whose name
\* does not start with an underscore.
attach_to_llms(self) ==
    /\ last = Idle
    /\ pc = "running"
    /\ callbacks' = [o \in Objects |-> IF o = "_private" THEN callbacks[o]
                                       ELSE Attach(callbacks[o], self)]
    /\ Ret("attach_to_llms", OK, self, 0, None)
    /\ UNCHANGED <<facade, tables, cache, exit, threads>>

\* The host program takes the result of the call and goes on.
Resume ==
    /\ last # Idle
    /\ pc = "running"
    /\ last' = Idle
    /\ got' = NoResult
    /\ UNCHANGED <<facade, tables, now, prompts, backend, exit, threads, callbacks>>

\* The facade: the Session and Step calls made without optional arguments, the
\* Event calls with and without a result.
Next ==
    \/ \E key, agent \in BOOLEAN : init(key, agent)
    \/ update_session(None)
    \/ end_session(None)
    \/ reset
    \/ create_step(None)
    \/ update_step(None)
    \/ \E i \in IndexArgs : update_previous_step(i, None)
    \/ end_step(None)
    \/ \E v \in Vals : create_event(v)
    \/ \E v \in Vals : update_event(v)
    \/ \E i \in IndexArgs, v \in Vals : update_previous_event(i, v)
    \/ \E v \in Vals : end_event(v)
    \/ Resume

\* The facade called without optional arguments, and the handler's callbacks.
NextProvider ==
    \/ \E key, agent \in BOOLEAN : init(key, agent)
    \/ update_session(None)
    \/ end_session(None)
    \/ reset
    \/ create_step(None)
    \/ update_step(None)
    \/ \E i \in IndexArgs : update_previous_step(i, None)
    \/ end_step(None)
    \/ create_event(None)
    \/ update_event(None)
    \/ \E i \in IndexArgs : update_previous_event(i, None)
    \/ end_event(None)
    \/ \E r \in Runs, m \in Models : on_llm_start(r, m)
    \/ \E r \in Runs, g \in BOOLEAN : on_llm_end(r, g)
    \/ \E r \in Runs : on_llm_error(r)
    \/ Resume

\* Steps and Events created and updated by index, with and without a goal or
\* a result, inside Sessions that are opened and closed; the Events stay open.
NextHistory ==
    \/ \E key, agent \in BOOLEAN : init(key, agent)
    \/ end_session(None)
    \/ \E v \in Vals : create_step(v)
    \/ \E i \in IndexArgs, v \in Vals : update_previous_step(i, v)
    \/ end_step(None)
    \/ \E v \in Vals : create_event(v)
    \/ \E i \in IndexArgs, v \in Vals : update_previous_event(i, v)
    \/ Resume

\* A host program that opens and closes Sessions and Steps and leaves the
\* Events to the handler: every start, end and error callback of the handler.
NextCallbacks ==
    \/ \E key, agent \in BOOLEAN : init(key, agent)
    \/ end_session(None)
    \/ create_step(None)
    \/ end_step(None)
    \/ \E r \in Runs : on_llm_start(r, "m1")
    \/ \E r \in Runs, g \in BOOLEAN : on_llm_end(r, g)
    \/ \E r \in Runs : on_llm_error(r)
    \/ \E r \in Runs, i \in BOOLEAN : on_chain_start(r, i)
    \/ \E r \in Runs, o \in BOOLEAN : on_chain_end(r, o)
    \/ \E r \in Runs : on_chain_error(r)
    \/ \E r \in Runs : on_tool_start(r)
    \/ \E r \in Runs, o \in BOOLEAN : on_tool_end(r, o)
    \/ \E r \in Runs : on_tool_error(r)
    \/ \E r \in Runs : on_retriever_start(r)
    \/ \E r \in Runs, d \in BOOLEAN : on_retriever_end(r, d)
    \/ \E r \in Runs : on_retriever_error(r)
    \/ Resume

\* Prompts asked for without variables while time passes and the prompt
\* database is edited, inside and outside a Session.
NextPrompt ==
    \/ \E key, agent \in BOOLEAN : init(key, agent)
    \/ end_session(None)
    \/ \E k \in PromptKeys, ttl \in TtlArgs : get_prompt(k, <<>>, ttl)
    \/ Tick
    \/ \E k \in PromptKeys, text \in PromptTexts : backend_edit(k, text)
    \/ Resume

\* Sessions opened and ended, interrupts, and the exit of the process.
NextExit ==
    \/ \E key, agent \in BOOLEAN : init(key, agent)
    \/ end_session(None)
    \/ \E handler \in {default_int_handler, host_handler} : signal_install(handler)
    \/ SIGINT
    \/ cleanup_begin
    \/ cleanup_client
    \/ cleanup_end_session
    \/ cleanup_clear_session
    \/ cleanup_finally
    \/ Resume

\* The host program ends its Step while the end and error callbacks of the
\* LLM runs arrive on two threads.
NextThreads ==
    \/ end_step(None)
    \/ \E t \in Threads, op \in {"on_llm_end", "on_llm_error"}, r \in Runs : thread_call(t, op, r)
    \/ \E t \in Threads : thread_session(t)
    \/ \E t \in Threads : thread_in_run_to_event(t)
    \/ \E t \in Threads : thread_event(t)
    \/ \E t \in Threads : thread_is_finished(t)
    \/ \E t \in Threads : thread_update_event(t)
    \/ \E t \in Threads : thread_del_run_to_event(t)
    \/ \E t \in Threads : thread_in_run_to_model(t)
    \/ \E t \in Threads : thread_del_run_to_model(t)
    \/ \E t \in Threads : thread_return(t)
    \/ Resume

\* Handlers attached to the host's objects.
NextAttach ==
    \/ \E self \in LucidicLangchainHandler : attach_to_llms(self)
    \/ Resume

\* An agent of the host framework: LLM and chain runs, agent actions and the
\* agent's finish, inside the Steps of the host program.
NextAgent ==
    \/ \E key, agent \in BOOLEAN : init(key, agent)
    \/ create_step(None)
    \/ end_step(None)
    \/ end_event(None)
    \/ \E r \in Runs : on_llm_start(r, "m1")
    \/ \E r \in Runs, g \in BOOLEAN : on_llm_end(r, g)
    \/ \E r \in Runs, i \in BOOLEAN : on_chain_start(r, i)
    \/ \E r \in Runs, o \in BOOLEAN : on_chain_end(r, o)
    \/ \E r \in Runs : on_agent_action(r)
    \/ \E r \in Runs : on_agent_finish(r)
    \/ Resume

\* Prompts asked for with variables, the cache disabled.
NextSubst ==
    \/ \E variables \in VariableDicts : get_prompt("p", variables, 0)
    \/ Resume

\* The facade alone.
Spec == Init /\ [][Next]_vars

\* The facade and the callback handler together.
SpecProvider == Init /\ [][NextProvider]_vars

\* The Step and Event histories under indexed updates.
SpecHistory == Init /\ [][NextHistory]_vars

\* The prompt cache over time.
SpecPrompt == Init /\ [][NextPrompt]_vars

\* The process up to and through its exit.
SpecExit == Init /\ [][NextExit]_vars

\* The terminating callbacks of LLM runs on concurrent threads.
SpecThreads == InitThreads /\ [][NextThreads]_vars

\* The attachment of handlers, over the callbacks the host's objects hold.
SpecAttach == InitAttach /\ [][NextAttach]_vars

\* The handler's callbacks under an agent.
SpecAgent == Init /\ [][NextAgent]_vars

\* The substitution of variables, over the templates and the variables.
SpecSubst == InitSubst /\ [][NextSubst]_vars

\* The handler's callbacks around a host program's Sessions and Steps.
SpecCallbacks == Init /\ [][NextCallbacks]_vars

----------------------------------------------------------------------------
\* What the claims speak of.

\* The step being taken is a call of op.
Called(op) == last'.op = op

\* The call changed nothing: no Session, Step, Event or table entry.
Same == UNCHANGED <<facade, tables>>

\* The Sessions that are not finished.
ActiveSessions == {s \in 1..Len(sessions) : ~sessions[s].is_finished}

\* The unfinished Steps of Session s.
UnfinishedSteps(s) == {t \in 1..Len(steps) : steps[t].session = s /\ ~steps[t].is_finished}

\* The most recent Event of the active Step (0: there is none).
LatestEvent ==
    IF session = 0 THEN 0
    ELSE IF active_step(session) = 0 THEN 0
    ELSE IF event_history(active_step(session)) = <<>> THEN 0
    ELSE At(event_history(active_step(session)), -1)

\* The step is an update or end call that finds nothing to act on: no Session
\* or no active Step (update_step, end_step), or no Event in the active Step
\* (update_event, end_event).
NoTarget ==
    \/ ((Called("update_step") \/ Called("end_step"))
          /\ (session = 0 \/ active_step(session) = 0))
    \/ ((Called("update_event") \/ Called("end_event")) /\ LatestEvent = 0)

\* seq2 is seq1 with exactly one item appended.
AppendsOne(seq1, seq2) ==
    /\ Len(seq2) = Len(seq1) + 1
    /\ SubSeq(seq2, 1, Len(seq1)) = seq1

----------------------------------------------------------------------------
\* C1, as stated: init() called while a Session is active raises
\* InvalidOperationError, creates no second Session and leaves the active
\* Session unchanged.
C1_AsStated ==
    [][Called("init") /\ session # 0 =>
        last'.out = InvalidOperationError /\ Same]_vars

\* C1, amended: init() called while a Session is active creates no second
\* Session and leaves the active Session unchanged; it raises
\* InvalidOperationError when the API key and the agent id are given, and
\* APIKeyVerificationError when one of them is missing.
C1_InitWhileActive ==
    [][Called("init") /\ session # 0 =>
        /\ last'.out = IF last'.arg = "credentials"
                       THEN InvalidOperationError ELSE APIKeyVerificationError
        /\ Same]_vars

C1_Witness ==
    /\ last.op = "init" /\ last.arg = "credentials"
    /\ last.out = InvalidOperationError
    /\ session # 0 /\ ~sessions[session].is_finished
    /\ Len(sessions) = 1

\* C2: in every reachable state at most one Session is unfinished, and it is
\* the one the facade holds.
C2_OneActiveSession ==
    /\ Cardinality(ActiveSessions) <= 1
    /\ ActiveSessions = IF session = 0 THEN {} ELSE {session}

C2_Witness ==
    /\ Len(sessions) = 2 /\ session = 2
    /\ sessions[1].is_finished
    /\ \E r \in Runs : run_to_event[r] # 0 /\ events[run_to_event[r]].is_finished

\* C3, as stated: once end_session() has ended the Session, the next init()
\* succeeds and creates a new active Session.
C3_AsStated ==
    [][Called("init") /\ session = 0 /\ sessions # <<>> =>
        last'.out = OK /\ AppendsOne(sessions, sessions')]_vars

\* C3, amended: end_session() on the active Session finishes it and detaches
\* it; an init() that follows never raises InvalidOperationError and, when the
\* API key and the agent id are given, succeeds and creates a new active
\* Session, leaving the earlier Sessions as they are.
C3_InitAfterEnd ==
    [][/\ (Called("end_session") /\ session # 0)
          => (/\ last'.out = OK
              /\ session' = 0
              /\ sessions'[session].is_finished)
       /\ (Called("init") /\ session = 0)
          => (/\ last'.out # InvalidOperationError
              /\ (last'.arg = "credentials")
                 => (/\ last'.out = OK
                     /\ AppendsOne(sessions, sessions')
                     /\ session' = Len(sessions')
                     /\ ~sessions'[session'].is_finished))]_vars

C3_Witness ==
    /\ last.op = "init" /\ last.out = OK
    /\ Len(sessions) = MaxSessions /\ session = MaxSessions
    /\ \A s \in 1..(MaxSessions - 1) : sessions[s].is_finished

\* C4: end_session() called when no Session is active raises nothing, only
\* warns, and changes no state.
C4_AsStated ==
    [][Called("end_session") /\ session = 0 => last'.out = WARN /\ Same]_vars

\* C5: update_session() called when no Session is active (never initialised,
\* or the Session has been ended) raises nothing, warns, and changes no state.
C5_AsStated ==
    [][Called("update_session") /\ session = 0 => last'.out = WARN /\ Same]_vars

\* C6: create_step while the current Step is unfinished raises
\* InvalidOperationError and adds no Step; create_step with no unfinished
\* current Step succeeds and appends exactly one new Step, which is the active
\* one; so no Session ever has more than one unfinished Step.
C6_CreateStep ==
    /\ [](\A s \in 1..Len(sessions) : Cardinality(UnfinishedSteps(s)) <= 1)
    /\ [][Called("create_step") /\ session # 0 =>
            IF active_step(session) # 0
            THEN last'.out = InvalidOperationError /\ Same
            ELSE /\ last'.out = OK
                 /\ AppendsOne(steps, steps')
                 /\ steps'[Len(steps')].session = session
                 /\ ~steps'[Len(steps')].is_finished
                 /\ active_step(session)' = Len(steps')
                 /\ UNCHANGED <<initialized, session, sessions, events, tables>>]_vars

C6_Witness ==
    /\ last.op = "create_step" /\ last.out = OK
    /\ session # 0
    /\ Len(step_history(session)) = 2
    /\ steps[step_history(session)[1]].is_finished
    /\ active_step(session) = step_history(session)[2]

\* C7: with a Session active and no active Step, update_step and end_step raise
\* InvalidOperationError and change no state; end_step on the active Step
\* leaves no active Step, so that a second end_step fails.
C7_NoActiveStep ==
    [][/\ ((Called("update_step") \/ Called("end_step"))
             /\ session # 0 /\ active_step(session) = 0)
          => (last'.out = InvalidOperationError /\ Same)
       /\ (Called("end_step") /\ session # 0 /\ active_step(session) # 0)
          => (/\ last'.out = OK
              /\ steps'[active_step(session)].is_finished
              /\ active_step(session)' = 0)]_vars

C7_Witness ==
    /\ last.op = "end_step" /\ last.out = InvalidOperationError
    /\ session # 0
    /\ step_history(session) # <<>>
    /\ steps[At(step_history(session), -1)].is_finished

\* C8, as stated, read for a facade that has been initialised: update_step,
\* end_step, update_event and end_event called with no Session, no active Step
\* or no Event warn and do nothing, and no exception reaches the caller.
C8_AsStated ==
    [][(/\ initialized
        /\ NoTarget)
       => (last'.out = WARN /\ Same)]_vars

\* C8, amended: update_step, end_step, update_event and end_event called with
\* no Session, no active Step or no Event change no state; the call is a
\* warning only when the initialised facade holds no Session; with a Session
\* and no active Step, or no Event in the active Step, it raises
\* InvalidOperationError; on a facade never initialised it raises
\* LucidicNotInitializedError.
C8_NoTarget ==
    [][NoTarget
       => (/\ Same
           /\ last'.out = IF ~initialized THEN LucidicNotInitializedError
                          ELSE IF session = 0 THEN WARN
                          ELSE InvalidOperationError)]_vars

C8_Witness ==
    /\ last.op = "update_event" /\ last.out = InvalidOperationError
    /\ session # 0 /\ active_step(session) # 0
    /\ LatestEvent = 0

\* C9: create_event with a Session whose current Step is finished or absent
\* raises InvalidOperationError and appends nothing; with an unfinished current
\* Step it appends exactly one Event, to that Step's history, and changes no
\* other Event.
C9_CreateEvent ==
    [][Called("create_event") /\ session # 0 =>
        IF active_step(session) = 0
        THEN last'.out = InvalidOperationError /\ Same
        ELSE /\ last'.out = OK
             /\ AppendsOne(events, events')
             /\ ~steps[active_step(session)].is_finished
             /\ event_history(active_step(session))' =
                    Append(event_history(active_step(session)), Len(events'))
             /\ UNCHANGED <<initialized, session, sessions, steps, tables>>]_vars

C9_Witness ==
    /\ last.op = "create_event" /\ last.out = InvalidOperationError
    /\ session # 0
    /\ step_history(session) # <<>>
    /\ steps[At(step_history(session), -1)].is_finished
    /\ event_history(At(step_history(session), -1)) # <<>>

\* C10: end_event when the most recent Event of the active Step is finished
\* raises InvalidOperationError and leaves the Event unchanged; end_event
\* succeeds only on an unfinished Event, which it finishes, changing no other
\* Event.
C10_EndEvent ==
    [][Called("end_event") /\ LatestEvent # 0 =>
        IF events[LatestEvent].is_finished
        THEN last'.out = InvalidOperationError /\ Same
        ELSE /\ last'.out = OK
             /\ events'[LatestEvent].is_finished
             /\ Len(events') = Len(events)
             /\ \A e \in 1..Len(events) : e # LatestEvent => events'[e] = events[e]
             /\ UNCHANGED <<initialized, session, sessions, steps, tables>>]_vars

C10_Witness ==
    /\ last.op = "end_event" /\ last.out = InvalidOperationError
    /\ LatestEvent # 0
    /\ events[LatestEvent].is_finished

----------------------------------------------------------------------------
\* The Events of the active Step, oldest first (empty without an active Step).
ActiveEvents ==
    IF session = 0 THEN <<>>
    ELSE IF active_step(session) = 0 THEN <<>>
    ELSE event_history(active_step(session))

\* index is a negative index within history h: -Len(h) <= index <= -1.
InRange(h, index) == index < 0 /\ 0 - index <= Len(h)

\* The k-th most recently appended item of history h.
KthMostRecent(h, k) == h[Len(h) - k + 1]

\* C11: update_event on a latest Event that is finished, and
\* update_previous_event whose index names a finished Event, are rejected with
\* InvalidOperationError and leave every field of the Event (and everything
\* else) unchanged.
C11_FinishedEvent ==
    [][/\ ((Called("update_event") /\ LatestEvent # 0 /\ events[LatestEvent].is_finished)
            => (last'.out = InvalidOperationError /\ Same))
       /\ ((/\ Called("update_previous_event")
            /\ InRange(ActiveEvents, last'.idx)
            /\ events[KthMostRecent(ActiveEvents, 0 - last'.idx)].is_finished)
            => (last'.out = InvalidOperationError /\ Same))]_vars

C11_Witness ==
    /\ last.op = "update_previous_event" /\ last.out = InvalidOperationError
    /\ last.idx = 0 - 2 /\ last.arg = "a"
    /\ Len(ActiveEvents) = 2
    /\ events[ActiveEvents[1]].is_finished
    /\ ~events[ActiveEvents[2]].is_finished

\* C12: with a Session active, update_previous_step and update_previous_event
\* raise InvalidOperationError and change no state when index >= 0, whatever
\* the length of the history, and when |index| exceeds the length of the
\* history.
C12_BadIndex ==
    [][/\ ((/\ Called("update_previous_step")
            /\ session # 0
            /\ ~InRange(step_history(session), last'.idx))
            => (last'.out = InvalidOperationError /\ Same))
       /\ ((/\ Called("update_previous_event")
            /\ session # 0
            /\ ~InRange(ActiveEvents, last'.idx))
            => (last'.out = InvalidOperationError /\ Same))]_vars

C12_Witness ==
    /\ last.op = "update_previous_step" /\ last.out = InvalidOperationError
    /\ session # 0
    /\ Len(step_history(session)) = MaxSteps
    /\ last.idx = 0 - (MaxSteps + 1)

----------------------------------------------------------------------------
\* The handler's callbacks, by kind.
StartCallbacks == {"on_llm_start", "on_chain_start", "on_tool_start", "on_retriever_start"}
EndCallbacks == {"on_llm_end", "on_chain_end", "on_tool_end", "on_retriever_end"}
ErrorCallbacks == {"on_llm_error", "on_chain_error", "on_tool_error", "on_retriever_error"}

\* The run of the callback being taken holds an unfinished Event: the run is
\* in state STARTED.
Started == run_to_event[last'.run] # 0 /\ ~events[run_to_event[last'.run]].is_finished

\* Every Event but e is as it was, and none was added.
OnlyChanged(e) ==
    /\ Len(events') = Len(events)
    /\ \A x \in 1..Len(events) : x # e => events'[x] = events[x]

\* The Events of the Steps of Session s.
EventsOf(s) == {e \in 1..Len(events) : steps[events[e].step].session = s}

\* C14: when on_llm_start for run R has created an Event and on_llm_end for R
\* arrives, exactly that Event is marked finished, with success true and with
\* the model name stored for R, and no other Event is changed.
C14_AsStated ==
    [][(Called("on_llm_end") /\ Started)
       => (LET e == run_to_event[last'.run] IN
           /\ events'[e].is_finished
           /\ events'[e].is_successful = "True"
           /\ events'[e].model = StoredModel(last'.run)
           /\ OnlyChanged(e))]_vars

\* C15: an error callback for a run in state STARTED ends the run's Event with
\* success flag false and without cost or result, and removes the run's entry
\* from the table.
C15_AsStated ==
    [][(last'.op \in ErrorCallbacks /\ Started)
       => (LET e == run_to_event[last'.run] IN
           /\ events'[e].is_finished
           /\ events'[e].is_successful = "False"
           /\ events'[e].result = events[e].result
           /\ events'[e].cost_added = events[e].cost_added
           /\ run_to_event'[last'.run] = 0)]_vars

\* C16: an end or error callback for a run that has no entry in the tables
\* raises nothing, changes no Event and leaves the tables unchanged.
C16_AsStated ==
    [][(/\ last'.op \in EndCallbacks \cup ErrorCallbacks
        /\ run_to_event[last'.run] = 0
        /\ run_to_model[last'.run] = None)
       => (last'.out = LOGGED /\ Same)]_vars

\* C17: a start callback that arrives when there is no active Session or no
\* active Step creates no Event and raises nothing: it logs and returns.
C17_AsStated ==
    [][(last'.op \in StartCallbacks /\ ~HasActiveStep)
       => (last'.out = LOGGED /\ UNCHANGED <<facade, run_to_event>>)]_vars

C19_AsStated ==
    [][last'.op \in StartCallbacks \cup EndCallbacks \cup ErrorCallbacks
       => last'.out \in {OK, LOGGED}]_vars

\* C20: once a Session is finished, no call and no callback changes a Step or
\* an Event that belongs to it.
C20_AsStated ==
    [][\A s \in 1..Len(sessions) :
        sessions[s].is_finished
        => (/\ \A t \in 1..Len(steps) : steps[t].session = s => steps'[t] = steps[t]
            /\ \A e \in EventsOf(s) : events'[e] = events[e])]_vars

----------------------------------------------------------------------------
\* The call being taken is get_prompt; Asked is the cache entry of the prompt
\* it asks for, as the call finds it.
Asked == prompts[last'.arg]

\* The entry the call finds is within its TTL window / has outlived it.
InWindow == Asked.cached /\ Asked.ttl > 0 /\ now - Asked.created < Asked.ttl
Expired == Asked.cached /\ Asked.ttl > 0 /\ now - Asked.created >= Asked.ttl

\* What C21 says of a get_prompt call that keeps a cache (cache_ttl # 0):
\* inside the window the cached text and no backend call, at or after expiry a
\* backend fetch and a re-stamped entry, and never a refetch of an entry
\* stored with ttl = -1.
CacheContract ==
    /\ InWindow => (got'.text = Asked.text /\ ~got'.fetched /\ prompts' = prompts)
    /\ Expired => (/\ got'.fetched
                   /\ got'.text = backend[last'.arg]
                   /\ prompts'[last'.arg] = [cached |-> TRUE, text |-> backend[last'.arg],
                                             created |-> now, ttl |-> last'.idx])
    /\ (Asked.cached /\ Asked.ttl < 0) => (got'.text = Asked.text /\ ~got'.fetched)

----------------------------------------------------------------------------
\* The keys of a variables argument.
KeysOf(variables) == {variables[i][1] : i \in 1..Len(variables)}

\* The value given for key.
ValueOf(variables, key) ==
    LET i == CHOOSE j \in 1..Len(variables) : variables[j][1] = key IN variables[i][2]

\* The template with every {{key}} token of the variables replaced by its
\* value, in one pass over the template.
RECURSIVE Resolve(_, _)
Resolve(template, variables) ==
    IF template = <<>> THEN <<>>
    ELSE LET here == {k \in KeysOf(variables) :
                        /\ Len(Token(k)) <= Len(template)
                        /\ SubSeq(template, 1, Len(Token(k))) = Token(k)}
         IN  IF here = {} THEN <<template[1]>> \o Resolve(Tail(template), variables)
             ELSE LET k == CHOOSE x \in here : TRUE
                  IN  ValueOf(variables, k)
                        \o Resolve(SubSeq(template, Len(Token(k)) + 1, Len(template)), variables)

\* The text holds an opening {{ followed later by a closing }}.
HasTokenPair(text) ==
    \E i, j \in 1..Len(text) :
        /\ i < j /\ j < Len(text)
        /\ text[i] = "{" /\ text[i + 1] = "{"
        /\ text[j] = "}" /\ text[j + 1] = "}"

\* C23: inside a Session, get_prompt with variables raises PromptError whenever
\* some key has no {{key}} token in the fetched template, and otherwise
\* returns the template with every {{key}} token replaced by its value.
C23_AsStated ==
    [][(Called("get_prompt") /\ session # 0)
       => IF \E k \in KeysOf(got'.variables) : Find(backend[last'.arg], Token(k)) = 0 - 1
          THEN last'.out = PromptError
          ELSE /\ last'.out = OK
               /\ got'.text = Resolve(backend[last'.arg], got'.variables)]_vars

\* C24: a get_prompt that returns a text prints the unreplaced-variable
\* warning exactly when the text holds an opening {{ followed later by a
\* closing }}.
C24_AsStated ==
    [][(Called("get_prompt") /\ last'.out = OK)
       => (got'.warned <=> HasTokenPair(got'.text))]_vars

\* The Session is finished and the Client still holds it.
HalfFinalized == session # 0 /\ sessions[session].is_finished

\* C25: the process exits with every Session ended and none held, a Session
\* once ended is never touched again, and cleanup does not raise.
C25_AsStated ==
    /\ [](pc = "exited"
          => /\ last.out = OK
             /\ session = 0
             /\ \A s \in 1..Len(sessions) : sessions[s].is_finished)
    /\ [][\A s \in 1..Len(sessions) :
            sessions[s].is_finished => sessions'[s] = sessions[s]]_vars

\* C26: in the body of cleanup SIGINT is ignored, so that a SIGINT arriving
\* there changes neither the Session nor where cleanup is, and the process
\* never exits with a Session finished but still held; cleanup saves the
\* handler it found installed, keeps it, and installs it again on every way
\* out, also when ending the Session raised.
C26_MaskedAndRestored ==
    /\ [](pc \in CleanupBody => sigint = SIG_IGN)
    /\ [](pc = "exited" => ~HalfFinalized)
    /\ [][(pc \in CleanupBody /\ interrupts' # interrupts)
          => (pc' = pc /\ UNCHANGED <<facade, last>>)]_vars
    /\ [][(pc \notin CleanupBody /\ pc' \in CleanupBody)
          => original_handler' = sigint]_vars
    /\ [][(pc \in CleanupBody \cup {"finally"})
          => original_handler' = original_handler]_vars
    /\ [][(pc # "exited" /\ pc' = "exited")
          => (pc = "finally" /\ sigint' = original_handler)]_vars

\* The process has exited after a SIGINT arrived while the Session was being
\* ended and the ending raised; the host's handler is installed again.
C26_Witness ==
    /\ pc = "exited"
    /\ last.out = Exception
    /\ sigint = host_handler
    /\ \E i \in 1..Len(interrupts) : interrupts[i] = "end_session"

\* C27: when the end or error callback for a run in state STARTED has
\* returned, neither table holds an entry for the run.
C27_AsStated ==
    [][(last'.op \in EndCallbacks \cup ErrorCallbacks /\ Started)
       => (run_to_event'[last'.run] = 0 /\ run_to_model'[last'.run] = None)]_vars

\* C28: a start callback for a run in state STARTED creates no Event and
\* leaves the Event and the model name stored for the run as they are.
C28_AsStated ==
    [][(last'.op \in StartCallbacks /\ Started)
       => (/\ Len(events') = Len(events)
           /\ run_to_event'[last'.run] = run_to_event[last'.run]
           /\ run_to_model'[last'.run] = run_to_model[last'.run])]_vars

\* Two threads are at work on terminating callbacks for the same run.
Duplicates ==
    /\ threads["t1"].at # "idle" /\ threads["t2"].at # "idle"
    /\ threads["t1"].run = threads["t2"].run

\* C29: of two terminating callbacks at work on the same run at most one
\* writes the run's Event, and neither raises.
C29_AsStated ==
    Duplicates
    => /\ ~(threads["t1"].wrote /\ threads["t2"].wrote)
       /\ \A t \in Threads : threads[t].out \in {None, OK, LOGGED}

\* How often handler is in the list items.
Count(items, handler) == Cardinality({i \in 1..Len(items) : items[i] = handler})

\* C30: after attach_to_llms(h) the target and its public attribute, when they
\* have a callbacks attribute, hold h exactly once, and where h was already
\* held the callbacks are as they were.
C30_AsStated ==
    [][Called("attach_to_llms")
       => \A o \in {"target", "llm"} :
            callbacks[o].kind # "absent"
            => /\ Count(callbacks'[o].items, last'.arg) = 1
               /\ (Count(callbacks[o].items, last'.arg) = 1
                   => callbacks'[o] = callbacks[o])]_vars

\* C31: on_agent_action with an active Session and Step appends one Event,
\* finished and successful, and leaves both tables as they were.
C31_AsStated ==
    [][(Called("on_agent_action") /\ HasActiveStep)
       => (/\ AppendsOne(events, events')
           /\ events'[Len(events')].is_finished
           /\ events'[Len(events')].is_successful = "True"
           /\ UNCHANGED tables)]_vars

\* C32: every run with a stored model name has a stored Event that is not
\* finished, and a start callback that creates no Event leaves both tables
\* as they were.
C32_AsStated ==
    /\ [](\A r \in Runs :
            run_to_model[r] # None
            => (run_to_event[r] # 0 /\ ~events[run_to_event[r]].is_finished))
    /\ [][(last'.op \in StartCallbacks /\ Len(events') = Len(events))
          => UNCHANGED tables]_vars

\* C33: the Event stored for a run, while unfinished, is finished or has its
\* result written only by the end or error callback of that run or by
\* end_event.
C33_AsStated ==
    [][\A r \in Runs :
        LET e == run_to_event[r] IN
        (/\ e # 0
         /\ ~events[e].is_finished
         /\ (events'[e].is_finished \/ events'[e].result # events[e].result))
        => \/ (last'.op \in EndCallbacks \cup ErrorCallbacks /\ last'.run = r)
           \/ last'.op = "end_event"]_vars
====
